---- MODULE Spec2Model ----
(***************************************************************************)
(* EDAoggle autocomplete core: the Trie of trie.cpp / trie.h, the          *)
(* vocabulary load of HttpRequestHandler.cpp and the /predict handler.     *)
(*                                                                         *)
(* Codepoints and bytes are integers.  The alphabet used here is the ASCII *)
(* subset 'A' (65), 'a' (97), 'b' (98); strings are sequences of these.    *)
(***************************************************************************)
EXTENDS Integers, Sequences, FiniteSets, TLC

VARIABLES
    children,      \* children[n]: the std::map<char32_t, TrieNode*> of node n
    isEndOfWord,   \* isEndOfWord[n]: the complete-word flag of node n
    collectWords,  \* Trie::collectWords, the public result buffer of the Trie
    inserted,      \* history: the words passed to Trie::insert so far
    mainPc,        \* position of main() of edahttpd
    database,      \* HttpRequestHandler::database is open (not nullptr)
    loadResult,    \* what loadVocabularyIntoTrie returned ("none" before it returns)
    rowsLeft,      \* rows of the vocabulary table sqlite3_step has not returned yet
    registered,    \* the handler was passed to HttpServer::setHttpRequestHandler
    req,           \* req[t]: the request thread t is handling
    loadWord,      \* the buffer word of loadVocabularyIntoTrie between two rows
    runsRead,      \* history: the maximal alphabetic runs of threshold length of the rows read
    rowSets,       \* history: the words of the rows read, each row tokenized on its own
    indexPc,       \* position of main() of mkindex
    appendVocab,   \* the -append option of mkindex covers the vocabulary
    vocabSet,      \* the set<string> vocabSet of mkindex
    vocabStore,    \* the rows of the vocabulary table, oldest first
    docRuns,       \* history: the maximal alphabetic runs of threshold length of the documents read
    storedVocab,   \* history: the vocabulary sets whose rows are in the table, united
    storeBefore    \* history: the rows of the vocabulary table when mkindex started

trieVars == <<children, isEndOfWord, collectWords, inserted>>

serverVars == <<mainPc, database, loadResult, rowsLeft, registered, req>>

serverVarsButReq == <<mainPc, database, loadResult, rowsLeft, registered>>

loadVars == <<loadWord, runsRead, rowSets>>

indexVars == <<indexPc, appendVocab, vocabSet, vocabStore, docRuns, storedVocab, storeBefore>>

vars == <<children, isEndOfWord, collectWords, inserted,
          mainPc, database, loadResult, rowsLeft, registered, req,
          loadWord, runsRead, rowSets,
          indexPc, appendVocab, vocabSet, vocabStore, docRuns, storedVocab, storeBefore>>

-----------------------------------------------------------------------------
(* Bounds of the model *)

MaxLen == 2        \* longest word inserted and longest prefix queried
MaxInserts == 2    \* number of distinct words inserted
MaxK == 2          \* largest suggestion budget queried
MaxRows == 2       \* most rows in the vocabulary table
MaxRowLen == 6     \* longest vocabulary row, in bytes

-----------------------------------------------------------------------------
(* Codepoints *)

UpperA == 65
LowerA == 97
LowerB == 98

\* the lowercase alphabetic codepoints of the model
LowerAlphabet == {LowerA, LowerB}

\* every codepoint of the model
Alphabet == {UpperA} \cup LowerAlphabet

\* u_tolower of ICU on the ASCII range
u_tolower(c) == IF c >= 65 /\ c <= 90 THEN c + 32 ELSE c

RECURSIVE StringsUpTo(_, _)
StringsUpTo(S, n) ==
    IF n = 0 THEN {<<>>}
    ELSE LET shorter == StringsUpTo(S, n - 1)
         IN  shorter \cup {Append(s, c) : s \in {t \in shorter : Len(t) = n - 1}, c \in S}

\* Words: lowercase alphabetic sequences (what every caller passes to insert)
Words == StringsUpTo(LowerAlphabet, MaxLen)

\* query arguments: any codepoint sequence
Strings == StringsUpTo(Alphabet, MaxLen)

Budgets == 0 .. MaxK

\* the width of size_t kept by the model (64 in the build), far above every
\* budget and vocabulary size that occurs here
SizeBits == 16

\* the implicit conversion of a signed caller value to the size_t parameter
\* maxSuggestions: the value modulo 2^SizeBits
ToSizeT(n) == n % (2 ^ SizeBits)

\* the limits a caller holds in a signed integer
Limits == -1 .. MaxK

\* lowercasing a whole string, codepoint by codepoint
ToLowerStr(s) == [i \in 1 .. Len(s) |-> u_tolower(s[i])]

IsPrefixOf(p, w) == Len(p) <= Len(w) /\ SubSeq(w, 1, Len(p)) = p

-----------------------------------------------------------------------------
(* The Trie: nodes are numbered in allocation order, the root is node 1 *)

NULL == 0
root == 1

EmptyMap == [c \in {} |-> NULL]

\* TrieNode::retrieveChild on the heap ch
retrieveChildIn(ch, n, c) == IF c \in DOMAIN ch[n] THEN ch[n][c] ELSE NULL

\* TrieNode::retrieveChild
retrieveChild(n, c) == retrieveChildIn(children, n, c)

\* insertCharacter without the presence test: the child is always replaced
insertCharacter_Overwrite(h, n, c) ==
    LET new == Len(h.children) + 1
    IN  [children    |-> Append([h.children EXCEPT ![n] =
                                    [k \in DOMAIN h.children[n] \cup {c} |->
                                        IF k = c THEN new ELSE h.children[n][k]]],
                                EmptyMap),
         isEndOfWord |-> Append(h.isEndOfWord, FALSE)]

\* insertCharacter that allocates a node before looking for the key
insertCharacter_AlwaysAllocates(h, n, c) ==
    LET new == Len(h.children) + 1
    IN  [children    |-> Append(IF c \notin DOMAIN h.children[n]
                                THEN [h.children EXCEPT ![n] = (c :> new) @@ h.children[n]]
                                ELSE h.children,
                                EmptyMap),
         isEndOfWord |-> Append(h.isEndOfWord, FALSE)]

\* TrieNode::insertCharacter: allocates a node only if the key is absent
insertCharacter(h, n, c) ==
    IF c \notin DOMAIN h.children[n]
    THEN LET new == Len(h.children) + 1
         IN  [children    |-> Append([h.children EXCEPT ![n] = (c :> new) @@ h.children[n]],
                                     EmptyMap),
              isEndOfWord |-> Append(h.isEndOfWord, FALSE)]
    ELSE h

RECURSIVE insertFrom_MarkPrefixes(_, _, _)
\* insert that flags every node on the path, not only the last one
insertFrom_MarkPrefixes(h, currentNode, word) ==
    IF word = <<>>
    THEN [h EXCEPT !.isEndOfWord[currentNode] = TRUE]
    ELSE LET h1 == insertCharacter(h, currentNode, Head(word))
             h2 == [h1 EXCEPT !.isEndOfWord[currentNode] = TRUE]
         IN  insertFrom_MarkPrefixes(h2, retrieveChildIn(h2.children, currentNode, Head(word)),
                                     Tail(word))

RECURSIVE insertFrom_FlagsParent(_, _, _)
\* insert that sets the flag one node early, on the parent of the last node
insertFrom_FlagsParent(h, currentNode, word) ==
    IF word = <<>>
    THEN [h EXCEPT !.isEndOfWord[currentNode] = TRUE]
    ELSE LET h1 == insertCharacter(h, currentNode, Head(word))
         IN  IF Len(word) = 1
             THEN [h1 EXCEPT !.isEndOfWord[currentNode] = TRUE]
             ELSE insertFrom_FlagsParent(h1, retrieveChildIn(h1.children, currentNode, Head(word)),
                                         Tail(word))

RECURSIVE insertFrom_ToggleFlag(_, _, _)
\* insert that flips the flag of the last node instead of setting it
insertFrom_ToggleFlag(h, currentNode, word) ==
    IF word = <<>>
    THEN [h EXCEPT !.isEndOfWord[currentNode] = ~h.isEndOfWord[currentNode]]
    ELSE LET h1 == insertCharacter(h, currentNode, Head(word))
         IN  insertFrom_ToggleFlag(h1, retrieveChildIn(h1.children, currentNode, Head(word)),
                                   Tail(word))

RECURSIVE insertFrom(_, _, _)
\* the loop of Trie::insert from currentNode on, then the flag assignment
insertFrom(h, currentNode, word) ==
    IF word = <<>>
    THEN [h EXCEPT !.isEndOfWord[currentNode] = TRUE]
    ELSE LET h1 == insertCharacter(h, currentNode, Head(word))
         IN  insertFrom(h1, retrieveChildIn(h1.children, currentNode, Head(word)), Tail(word))

\* insert that returns at once on an empty word
insert_SkipEmpty(word) ==
    IF word = <<>>
    THEN [children |-> children, isEndOfWord |-> isEndOfWord]
    ELSE insertFrom([children |-> children, isEndOfWord |-> isEndOfWord], root, word)

\* Trie::insert(const std::u32string&)
insert(word) == insertFrom([children |-> children, isEndOfWord |-> isEndOfWord], root, word)

RECURSIVE descend(_, _)
\* the traversal loop shared by search, startsWith and collectSuggestions:
\* the node reached from n along s, or NULL
descend(n, s) ==
    IF s = <<>> THEN n
    ELSE LET next == retrieveChild(n, Head(s))
         IN  IF next = NULL THEN NULL ELSE descend(next, Tail(s))

\* Trie::search(const std::u32string&)
search(word) ==
    LET currentNode == descend(root, word)
    IN  IF currentNode = NULL THEN FALSE ELSE isEndOfWord[currentNode]

\* startsWith that denies the empty prefix on a trie without words
startsWith_EmptyNeedsWord(prefix) ==
    /\ descend(root, prefix) # NULL
    /\ prefix = <<>> => (isEndOfWord[root] \/ children[root] # EmptyMap)

\* startsWith that also demands a complete word at the end of the path
startsWith_NeedsWord(prefix) ==
    LET currentNode == descend(root, prefix)
    IN  IF currentNode = NULL THEN FALSE ELSE isEndOfWord[currentNode]

\* Trie::startsWith(const std::u32string&)
startsWith(prefix) == descend(root, prefix) # NULL

MinOf(S) == CHOOSE x \in S : \A y \in S : x <= y
MaxOf(S) == CHOOSE x \in S : \A y \in S : x >= y

RECURSIVE DFSCollector(_, _, _, _)
RECURSIVE DFSChildren(_, _, _, _, _)

\* DFSCollector without the isEndOfWord test: every visited node is reported
DFSCollector_EveryNode(node, currentWord, maxSuggestions, out) ==
    IF maxSuggestions = 0
    THEN [out |-> out, max |-> maxSuggestions]
    ELSE DFSChildren(node, DOMAIN children[node], currentWord, maxSuggestions - 1,
                     Append(out, currentWord))

\* DFSCollector that charges the budget at every visited node
DFSCollector_ChargeEveryNode(node, currentWord, maxSuggestions, out) ==
    IF maxSuggestions = 0
    THEN [out |-> out, max |-> maxSuggestions]
    ELSE LET here == IF isEndOfWord[node]
                     THEN [out |-> Append(out, currentWord), max |-> maxSuggestions - 1]
                     ELSE [out |-> out, max |-> maxSuggestions - 1]
         IN  DFSChildren(node, DOMAIN children[node], currentWord, here.max, here.out)

\* the children loop over a container that keeps the children in the order
\* they were created
DFSChildren_CreationOrder(node, keys, currentWord, maxSuggestions, out) ==
    IF keys = {}
    THEN [out |-> out, max |-> maxSuggestions]
    ELSE LET c == CHOOSE k \in keys : \A j \in keys : children[node][k] <= children[node][j]
             r == DFSCollector(children[node][c], Append(currentWord, u_tolower(c)),
                               maxSuggestions, out)
         IN  IF r.max = 0 THEN r
             ELSE DFSChildren(node, keys \ {c}, currentWord, r.max, r.out)

\* the children loop over a container iterated in descending key order
DFSChildren_Descending(node, keys, currentWord, maxSuggestions, out) ==
    IF keys = {}
    THEN [out |-> out, max |-> maxSuggestions]
    ELSE LET c == MaxOf(keys)
             r == DFSCollector(children[node][c], Append(currentWord, u_tolower(c)),
                               maxSuggestions, out)
         IN  IF r.max = 0 THEN r
             ELSE DFSChildren(node, keys \ {c}, currentWord, r.max, r.out)

\* Trie::DFSCollector; out is collectWords, the result is the pair
\* (collectWords, maxSuggestions) when the call returns
DFSCollector(node, currentWord, maxSuggestions, out) ==
    IF maxSuggestions = 0
    THEN [out |-> out, max |-> maxSuggestions]
    ELSE LET here == IF isEndOfWord[node]
                     THEN [out |-> Append(out, currentWord), max |-> maxSuggestions - 1]
                     ELSE [out |-> out, max |-> maxSuggestions]
         IN  DFSChildren(node, DOMAIN children[node], currentWord, here.max, here.out)

\* the loop over node->children (a std::map: ascending key order); keys are
\* the children not yet visited
DFSChildren(node, keys, currentWord, maxSuggestions, out) ==
    IF keys = {}
    THEN [out |-> out, max |-> maxSuggestions]
    ELSE LET c == MinOf(keys)
             r == DFSCollector(children[node][c], Append(currentWord, u_tolower(c)),
                               maxSuggestions, out)
         IN  IF r.max = 0 THEN r
             ELSE DFSChildren(node, keys \ {c}, currentWord, r.max, r.out)

\* collectSuggestions without collectWords.clear(): results pile up
collectSuggestions_NoClear(buf, prefix, maxSuggestions) ==
    IF ~startsWith(prefix) \/ maxSuggestions = 0
    THEN buf
    ELSE DFSCollector(descend(root, prefix), ToLowerStr(prefix), maxSuggestions, buf).out

\* Trie::collectSuggestions(const std::u32string&, size_t): the contents of
\* collectWords when the call returns, buf being its contents at the call
collectSuggestions(buf, prefix, maxSuggestions) ==
    LET cleared == SubSeq(buf, 1, 0)
    IN  IF ~startsWith(prefix) \/ maxSuggestions = 0
        THEN cleared
        ELSE DFSCollector(descend(root, prefix), ToLowerStr(prefix),
                          maxSuggestions, cleared).out

-----------------------------------------------------------------------------
(* Operations of the Trie *)

\* Trie::Trie(): a root without children, not a word; an empty buffer
TrieInit ==
    /\ children = <<EmptyMap>>
    /\ isEndOfWord = <<FALSE>>
    /\ collectWords = <<>>
    /\ inserted = {}

Threads == {1, 2}

IdleRequest == [pc |-> "idle", url |-> "none", q |-> <<>>, pending |-> <<>>, i |-> 0,
                response |-> <<>>]

\* no server process: the Trie is exercised directly
ServerOff ==
    /\ mainPc = "off"
    /\ database = FALSE
    /\ loadResult = "none"
    /\ rowsLeft = 0
    /\ registered = FALSE
    /\ req = [t \in Threads |-> IdleRequest]

\* loadVocabularyIntoTrie is not running
LoadIdle ==
    /\ loadWord = <<>>
    /\ runsRead = {}
    /\ rowSets = {}

\* no indexer process
IndexOff ==
    /\ indexPc = "off"
    /\ appendVocab = FALSE
    /\ vocabSet = {}
    /\ vocabStore = <<>>
    /\ docRuns = {}
    /\ storedVocab = {}
    /\ storeBefore = <<>>

Init == TrieInit /\ ServerOff /\ LoadIdle /\ IndexOff

Insert(w) ==
    /\ w \in inserted \/ Cardinality(inserted) < MaxInserts
    /\ LET h == insert(w)
       IN  /\ children' = h.children
           /\ isEndOfWord' = h.isEndOfWord
    /\ inserted' = inserted \cup {w}
    /\ UNCHANGED collectWords
    /\ UNCHANGED serverVars

    /\ UNCHANGED <<loadVars, indexVars>>
\* Trie::search reads the nodes and writes nothing
Search(w) ==
    /\ search(w) \in BOOLEAN
    /\ UNCHANGED trieVars
    /\ UNCHANGED serverVars

    /\ UNCHANGED <<loadVars, indexVars>>
\* Trie::startsWith reads the nodes and writes nothing
StartsWith(p) ==
    /\ startsWith(p) \in BOOLEAN
    /\ UNCHANGED trieVars
    /\ UNCHANGED serverVars

    /\ UNCHANGED <<loadVars, indexVars>>
CollectSuggestions(p, k) ==
    /\ collectWords' = collectSuggestions(collectWords, p, k)
    /\ UNCHANGED <<children, isEndOfWord, inserted>>
    /\ UNCHANGED serverVars

    /\ UNCHANGED <<loadVars, indexVars>>
Next ==
    \/ \E w \in Words : Insert(w)
    \/ \E w \in Strings : Search(w)
    \/ \E p \in Strings : StartsWith(p)
    \/ \E p \in Strings, n \in Limits : CollectSuggestions(p, ToSizeT(n))

Spec == Init /\ [][Next]_vars

\* the Trie used with words of any codepoints, as Trie::insert accepts them
NextAny ==
    \/ \E w \in Strings : Insert(w)
    \/ \E w \in Strings : Search(w)
    \/ \E p \in Strings : StartsWith(p)
    \/ \E p \in Strings, n \in Limits : CollectSuggestions(p, ToSizeT(n))

SpecAny == Init /\ [][NextAny]_vars

-----------------------------------------------------------------------------
(* The service edahttpd: startup (main, the HttpRequestHandler constructor,  *)
(* loadVocabularyIntoTrie) and request handling                              *)

Space == 32
BadByte == 255          \* a byte that is not valid UTF-8

MinWordLength == 5      \* word.size() >= 5 inside the loop of loadVocabularyIntoTrie
MinLastWordLength == 5  \* word.size() >= 5 after the loop of loadVocabularyIntoTrie
PredictBudget == 10     \* collectSuggestions(query, 10) in handleRequest

\* the bytes a vocabulary row is made of in the model
RowBytes == {UpperA, LowerA, Space, BadByte}

Rows == StringsUpTo(RowBytes, MaxRowLen)

\* the codepoints of a /predict query in the model
Queries == StringsUpTo({UpperA, LowerA}, MaxLen)

OtherUrls == {"home", "search", "static"}

\* u_isalpha of ICU on the ASCII range
u_isalpha(c) == (c >= 65 /\ c <= 90) \/ (c >= 97 /\ c <= 122)

\* std::wstring_convert<codecvt_utf8<char32_t>>::from_bytes on single-byte
\* input: an ASCII byte is its own codepoint, any other byte here is
\* malformed and makes from_bytes throw std::range_error
from_bytes(bytes) ==
    IF \E i \in 1 .. Len(bytes) : bytes[i] >= 128
    THEN [ok |-> FALSE, text |-> <<>>]
    ELSE [ok |-> TRUE, text |-> bytes]

RECURSIVE rowWords(_, _)
\* the tokenizing loop of loadVocabularyIntoTrie over the rest of a row:
\* the words it passes to trie->insert, in order; word is the buffer
rowWords(content, word) ==
    IF content = <<>>
    THEN IF Len(word) >= MinLastWordLength THEN <<word>> ELSE <<>>
    ELSE LET c == Head(content)
         IN  IF u_isalpha(c)
             THEN rowWords(Tail(content), Append(word, u_tolower(c)))
             ELSE IF Len(word) >= MinWordLength
                  THEN <<word>> \o rowWords(Tail(content), <<>>)
                  ELSE rowWords(Tail(content), word)

RECURSIVE rowBuffer(_, _)
\* the same loop: the contents of the buffer word when the row is done
rowBuffer(content, word) ==
    IF content = <<>>
    THEN IF Len(word) >= MinLastWordLength THEN <<>> ELSE word
    ELSE LET c == Head(content)
         IN  IF u_isalpha(c)
             THEN rowBuffer(Tail(content), Append(word, u_tolower(c)))
             ELSE IF Len(word) >= MinWordLength
                  THEN rowBuffer(Tail(content), <<>>)
                  ELSE rowBuffer(Tail(content), word)

\* a row loop that keeps the buffer of the row before
clearedWord_Kept(word) == word

\* word.clear() at the top of each iteration of the row loop
clearedWord(word) == SubSeq(word, 1, 0)

\* the maximal alphabetic runs of a text, lowercased
MaximalRuns(text) ==
    {ToLowerStr(SubSeq(text, i, j)) : <<i, j>> \in
        {ij \in (1 .. Len(text)) \X (1 .. Len(text)) :
            /\ ij[1] <= ij[2]
            /\ \A k \in ij[1] .. ij[2] : u_isalpha(text[k])
            /\ ij[1] = 1 \/ ~u_isalpha(text[ij[1] - 1])
            /\ ij[2] = Len(text) \/ ~u_isalpha(text[ij[2] + 1])}}

\* the maximal alphabetic runs of at least n codepoints
LongRuns(text, n) == {r \in MaximalRuns(text) : Len(r) >= n}

RECURSIVE insertAll(_, _)
\* trie->insert of each word of ws in turn
insertAll(h, ws) ==
    IF ws = <<>> THEN h
    ELSE insertAll(insertFrom(h, root, Head(ws)), Tail(ws))

SeqToSet(q) == {q[i] : i \in 1 .. Len(q)}

\* a constructor that gives up when the vocabulary cannot be loaded
CtorAfterLoad_Fatal(result) == IF result = "true" THEN "constructed" ELSE "aborted"

\* the constructor after loadVocabularyIntoTrie returned: both branches only
\* print, construction always completes
CtorAfterLoad(result) == "constructed"

\* a handler handed to the server while its vocabulary is still loading
CanRegister_Early == mainPc \in {"loading", "constructed"}

\* main: setHttpRequestHandler follows the completed constructor
CanRegister == mainPc = "constructed"

\* HttpServer hands a request to the handler it was given
Dispatchable == registered

ServerInit ==
    /\ TrieInit
    /\ LoadIdle
    /\ IndexOff
    /\ mainPc = "start"
    /\ database = FALSE
    /\ loadResult = "none"
    /\ rowsLeft \in 0 .. MaxRows
    /\ registered = FALSE
    /\ req = [t \in Threads |-> IdleRequest]

\* main: HttpServer server(port)
StartServer ==
    /\ mainPc = "start"
    /\ mainPc' = "server_up"
    /\ UNCHANGED <<trieVars, database, loadResult, rowsLeft, registered, req>>

    /\ UNCHANGED <<loadVars, indexVars>>
\* HttpRequestHandler::HttpRequestHandler up to trie = new Trie()
ConstructorOpen(opened) ==
    /\ mainPc = "server_up"
    /\ database' = opened
    /\ mainPc' = "ctor"
    /\ UNCHANGED <<trieVars, loadResult, rowsLeft, registered, req>>

    /\ UNCHANGED <<loadVars, indexVars>>
\* loadVocabularyIntoTrie: sqlite3_open or sqlite3_prepare_v2 fails
LoadOpenFails ==
    /\ mainPc = "ctor"
    /\ loadResult' = "false"
    /\ mainPc' = CtorAfterLoad("false")
    /\ UNCHANGED <<trieVars, database, rowsLeft, registered, req>>

    /\ UNCHANGED <<loadVars, indexVars>>
\* loadVocabularyIntoTrie: the table is open and the statement prepared
LoadOpenSucceeds ==
    /\ mainPc = "ctor"
    /\ mainPc' = "loading"
    /\ UNCHANGED <<trieVars, database, loadResult, rowsLeft, registered, req>>

    /\ UNCHANGED <<loadVars, indexVars>>
\* one iteration of while (sqlite3_step(stmt) == SQLITE_ROW), row being the
\* bytes of the vocabulary column
LoadRow(row) ==
    /\ LET content == from_bytes(row)
       IN  IF ~content.ok
           THEN \* std::range_error leaves the constructor and main uncaught
                /\ mainPc' = "aborted"
                /\ UNCHANGED <<trieVars, rowsLeft, loadWord>>
           ELSE LET word == clearedWord(loadWord)
                    ws == rowWords(content.text, word)
                    h == insertAll([children |-> children, isEndOfWord |-> isEndOfWord], ws)
                IN  /\ children' = h.children
                    /\ isEndOfWord' = h.isEndOfWord
                    /\ inserted' = inserted \cup SeqToSet(ws)
                    /\ loadWord' = rowBuffer(content.text, word)
                    /\ rowsLeft' = rowsLeft - 1
                    /\ UNCHANGED <<mainPc, collectWords>>
    /\ UNCHANGED <<database, loadResult, registered, req, indexVars>>

\* what the history variables of the load record of a row
RowObserved(row) ==
    LET content == from_bytes(row)
    IN  IF ~content.ok
        THEN UNCHANGED <<runsRead, rowSets>>
        ELSE /\ runsRead' = runsRead \cup LongRuns(content.text, MinWordLength)
             /\ rowSets' = rowSets \cup SeqToSet(rowWords(content.text, <<>>))

\* sqlite3_step returns SQLITE_ROW with some row of the table
LoadNextRow ==
    /\ mainPc = "loading"
    /\ rowsLeft > 0
    /\ \E row \in Rows : LoadRow(row)
    /\ UNCHANGED <<runsRead, rowSets>>

\* the same step, recorded in the history variables
LoadNextRowObserved ==
    /\ mainPc = "loading"
    /\ rowsLeft > 0
    /\ \E row \in Rows : LoadRow(row) /\ RowObserved(row)

\* sqlite3_step returns SQLITE_DONE: finalize, close, return true
LoadDone ==
    /\ mainPc = "loading"
    /\ rowsLeft = 0
    /\ loadResult' = "true"
    /\ mainPc' = CtorAfterLoad("true")
    /\ UNCHANGED <<trieVars, database, rowsLeft, registered, req>>
    /\ loadWord' = <<>>
    /\ UNCHANGED <<runsRead, rowSets, indexVars>>

\* sqlite3_step returns an error code: the loop ends the same way
LoadStepFails ==
    /\ mainPc = "loading"
    /\ rowsLeft > 0
    /\ loadResult' = "true"
    /\ mainPc' = CtorAfterLoad("true")
    /\ UNCHANGED <<trieVars, database, rowsLeft, registered, req>>
    /\ loadWord' = <<>>
    /\ UNCHANGED <<runsRead, rowSets, indexVars>>

\* main: server.setHttpRequestHandler(&edaOogleHttpRequestHandler)
RegisterHandler ==
    /\ CanRegister
    /\ registered' = TRUE
    /\ mainPc' = "serving"
    /\ UNCHANGED <<trieVars, database, loadResult, rowsLeft, req>>

    /\ UNCHANGED <<loadVars, indexVars>>
\* a handler that stores every query it is asked to complete
RequestPredict_Learns(t, q) ==
    /\ Dispatchable
    /\ req[t].pc = "idle"
    /\ req' = [req EXCEPT ![t] = [IdleRequest EXCEPT !.pc = "clear", !.url = "predict", !.q = q]]
    /\ children' = insert(q).children
    /\ isEndOfWord' = insert(q).isEndOfWord
    /\ inserted' = inserted \cup {q}
    /\ UNCHANGED <<collectWords, mainPc, database, loadResult, rowsLeft, registered>>
    /\ UNCHANGED <<loadVars, indexVars>>

\* handleRequest entered for /predict?q=...
RequestPredict(t, q) ==
    /\ Dispatchable
    /\ req[t].pc = "idle"
    /\ req' = [req EXCEPT ![t] = [IdleRequest EXCEPT !.pc = "clear", !.url = "predict", !.q = q]]
    /\ UNCHANGED <<trieVars, mainPc, database, loadResult, rowsLeft, registered>>

    /\ UNCHANGED <<loadVars, indexVars>>
\* handleRequest for the home page, /search and static files: none of them
\* touches the trie; /search without a database renders an empty result page
RequestOther(t, url) ==
    /\ Dispatchable
    /\ req[t].pc = "idle"
    /\ req' = [req EXCEPT ![t] = [IdleRequest EXCEPT !.pc = "done", !.url = url,
                                                     !.response = <<"page">>]]
    /\ UNCHANGED <<trieVars, mainPc, database, loadResult, rowsLeft, registered>>

    /\ UNCHANGED <<loadVars, indexVars>>
\* handleRequest: trie->collectWords.clear()
PredictClear(t) ==
    /\ req[t].pc = "clear"
    /\ collectWords' = <<>>
    /\ req' = [req EXCEPT ![t].pc = "collect"]
    /\ UNCHANGED <<children, isEndOfWord, inserted, serverVarsButReq>>

    /\ UNCHANGED <<loadVars, indexVars>>
\* collectSuggestions up to the call of DFSCollector: clears the buffer and
\* tests the prefix; pending is what the traversal of this call will push,
\* which the trie and the call's own budget determine
CollectEnter(t) ==
    /\ req[t].pc = "collect"
    /\ collectWords' = <<>>
    /\ req' = [req EXCEPT ![t].pc = "dfs",
                          ![t].pending = collectSuggestions(<<>>, req[t].q, PredictBudget)]
    /\ UNCHANGED <<children, isEndOfWord, inserted, serverVarsButReq>>

    /\ UNCHANGED <<loadVars, indexVars>>
\* DFSCollector: collectWords.push_back(currentWord)
DFSPush(t) ==
    /\ req[t].pc = "dfs"
    /\ req[t].pending # <<>>
    /\ collectWords' = Append(collectWords, Head(req[t].pending))
    /\ req' = [req EXCEPT ![t].pending = Tail(req[t].pending)]
    /\ UNCHANGED <<children, isEndOfWord, inserted, serverVarsButReq>>

    /\ UNCHANGED <<loadVars, indexVars>>
\* collectSuggestions returns collectWords.size(); the handler starts its loop
CollectReturn(t) ==
    /\ req[t].pc = "dfs"
    /\ req[t].pending = <<>>
    /\ req' = [req EXCEPT ![t].pc = "loop"]
    /\ UNCHANGED <<trieVars, serverVarsButReq>>

    /\ UNCHANGED <<loadVars, indexVars>>
\* one test of i < trie->collectWords.size() and, inside the loop, the read
\* of trie->collectWords[i] into the JSON response
ResponseLoop(t) ==
    /\ req[t].pc = "loop"
    /\ IF req[t].i < Len(collectWords)
       THEN req' = [req EXCEPT ![t].response = Append(req[t].response,
                                                      collectWords[req[t].i + 1]),
                               ![t].i = req[t].i + 1]
       ELSE req' = [req EXCEPT ![t].pc = "done"]
    /\ UNCHANGED <<trieVars, serverVarsButReq>>

    /\ UNCHANGED <<loadVars, indexVars>>
\* handleRequest has returned and the response was sent
RequestReturn(t) ==
    /\ req[t].pc = "done"
    /\ req' = [req EXCEPT ![t] = IdleRequest]
    /\ UNCHANGED <<trieVars, serverVarsButReq>>

    /\ UNCHANGED <<loadVars, indexVars>>
ServerNext ==
    \/ StartServer
    \/ \E opened \in BOOLEAN : ConstructorOpen(opened)
    \/ LoadOpenFails
    \/ LoadOpenSucceeds
    \/ LoadNextRow
    \/ LoadDone
    \/ LoadStepFails
    \/ RegisterHandler
    \/ \E t \in Threads, q \in Queries : RequestPredict(t, q)
    \/ \E t \in Threads, url \in OtherUrls : RequestOther(t, url)
    \/ \E t \in Threads : PredictClear(t)
    \/ \E t \in Threads : CollectEnter(t)
    \/ \E t \in Threads : DFSPush(t)
    \/ \E t \in Threads : CollectReturn(t)
    \/ \E t \in Threads : ResponseLoop(t)
    \/ \E t \in Threads : RequestReturn(t)

SpecServer == ServerInit /\ [][ServerNext]_vars

\* the /predict queries of one client that pads its input with spaces
PaddedQueries == StringsUpTo({LowerA, Space}, MaxLen)

\* the thread that serves this client
SoleThread == MinOf(Threads)

\* the service handling the requests of that client one at a time
PredictNext ==
    \/ StartServer
    \/ \E opened \in BOOLEAN : ConstructorOpen(opened)
    \/ LoadOpenFails
    \/ LoadOpenSucceeds
    \/ LoadNextRow
    \/ LoadDone
    \/ LoadStepFails
    \/ RegisterHandler
    \/ \E q \in PaddedQueries : RequestPredict(SoleThread, q)
    \/ PredictClear(SoleThread)
    \/ CollectEnter(SoleThread)
    \/ DFSPush(SoleThread)
    \/ CollectReturn(SoleThread)
    \/ ResponseLoop(SoleThread)
    \/ RequestReturn(SoleThread)

SpecPredict == ServerInit /\ [][PredictNext]_vars

\* startup alone, with the history of the rows read
StartupNext ==
    \/ StartServer
    \/ \E opened \in BOOLEAN : ConstructorOpen(opened)
    \/ LoadOpenFails
    \/ LoadOpenSucceeds
    \/ LoadNextRowObserved
    \/ LoadDone
    \/ LoadStepFails
    \/ RegisterHandler

SpecStartup == ServerInit /\ [][StartupNext]_vars

-----------------------------------------------------------------------------
(* Helpers of the properties *)

Wa == <<LowerA>>
Wb == <<LowerB>>
Wab == <<LowerA, LowerB>>

MinNat(a, b) == IF a <= b THEN a ELSE b

\* strict lexicographic order on codepoint sequences, a proper prefix first
LexLess(s, t) ==
    /\ s # t
    /\ \/ IsPrefixOf(s, t)
       \/ \E i \in 1 .. MinNat(Len(s), Len(t)) :
             /\ SubSeq(s, 1, i - 1) = SubSeq(t, 1, i - 1)
             /\ s[i] < t[i]

RECURSIVE SortLex(_)
\* the elements of a set of strings in ascending lexicographic order
SortLex(S) ==
    IF S = {} THEN <<>>
    ELSE LET m == CHOOSE x \in S : \A y \in S : x = y \/ LexLess(x, y)
         IN  <<m>> \o SortLex(S \ {m})

\* the inserted words that start with p
Matches(p) == {w \in inserted : IsPrefixOf(p, w)}

\* the buffer a call collectSuggestions(p, k) made in this state leaves
Suggest(p, k) == collectSuggestions(collectWords, p, k)

-----------------------------------------------------------------------------
(* The indexer mkindex: the tokenizer vocabulary, the vocabulary row written *)
(* by vocabularyDatabase, and the startup load of the rows it wrote          *)

VocabMinLength == 5       \* word.size() >= 5 inside the loop of vocabulary
VocabMinLastLength == 5   \* word.size() >= 5 after the loop of vocabulary

\* the cleaned texts handed to vocabulary in the model
Documents == StringsUpTo(RowBytes, MaxRowLen)

\* the words such texts can hold
VocabWords == {w \in StringsUpTo({LowerA}, MaxRowLen) : Len(w) >= VocabMinLength}

\* std::wstring_convert<codecvt_utf8<char32_t>>::to_bytes on codepoints below
\* 128, the only ones a word of the model holds: one byte each, of the same value
to_bytes(word) == [i \in 1 .. Len(word) |-> word[i] % 128]

RECURSIVE vocabularyFrom_NoClear(_, _)
\* a tokenizing loop without the final else: a short run stays in the buffer
vocabularyFrom_NoClear(text, word) ==
    IF text = <<>>
    THEN IF Len(word) >= VocabMinLastLength THEN {to_bytes(word)} ELSE {}
    ELSE LET c == Head(text)
         IN  IF u_isalpha(c)
             THEN vocabularyFrom_NoClear(Tail(text), Append(word, u_tolower(c)))
             ELSE IF Len(word) >= VocabMinLength
                  THEN {to_bytes(word)} \cup vocabularyFrom_NoClear(Tail(text), <<>>)
                  ELSE vocabularyFrom_NoClear(Tail(text), word)

RECURSIVE vocabularyFrom(_, _)
\* the loop of vocabulary over the rest of the text and the flush after it:
\* the strings it inserts into vocabSet; word is the buffer
vocabularyFrom(text, word) ==
    IF text = <<>>
    THEN IF Len(word) >= VocabMinLastLength THEN {to_bytes(word)} ELSE {}
    ELSE LET c == Head(text)
         IN  IF u_isalpha(c)
             THEN vocabularyFrom(Tail(text), Append(word, u_tolower(c)))
             ELSE IF Len(word) >= VocabMinLength
                  THEN {to_bytes(word)} \cup vocabularyFrom(Tail(text), <<>>)
                  ELSE vocabularyFrom(Tail(text), <<>>)

RECURSIVE vocabString_NoSeparator(_)
\* a row written without the separator after each word
vocabString_NoSeparator(S) ==
    IF S = {} THEN <<>>
    ELSE LET w == CHOOSE x \in S : \A y \in S : x = y \/ LexLess(x, y)
         IN  w \o vocabString_NoSeparator(S \ {w})

RECURSIVE vocabString(_)
\* vocabularyDatabase: vocabString += w + " " over the std::set<string>, which
\* iterates in ascending byte order
vocabString(S) ==
    IF S = {} THEN <<>>
    ELSE LET w == CHOOSE x \in S : \A y \in S : x = y \/ LexLess(x, y)
         IN  w \o <<Space>> \o vocabString(S \ {w})

\* mkindex has started on a vocabulary table that is empty or holds the row of
\* an earlier run; the service is not running yet
IndexInit ==
    /\ TrieInit
    /\ ServerOff
    /\ LoadIdle
    /\ indexPc = "indexing"
    /\ appendVocab \in BOOLEAN
    /\ vocabSet = {}
    /\ docRuns = {}
    /\ \E earlier \in BOOLEAN, S \in SUBSET VocabWords :
          /\ vocabStore = IF earlier THEN <<vocabString(S)>> ELSE <<>>
          /\ storedVocab = IF earlier THEN S ELSE {}
    /\ storeBefore = vocabStore

\* indexDatabase: one file of the input folder goes through vocabulary
IndexDocument(doc) ==
    /\ LET content == from_bytes(doc)
       IN  IF ~content.ok
           THEN \* std::range_error leaves vocabulary, indexDatabase and main uncaught
                /\ indexPc' = "aborted"
                /\ UNCHANGED <<vocabSet, docRuns>>
           ELSE /\ vocabSet' = vocabSet \cup vocabularyFrom(content.text, <<>>)
                /\ docRuns' = docRuns \cup LongRuns(content.text, VocabMinLength)
                /\ UNCHANGED indexPc
    /\ UNCHANGED <<appendVocab, vocabStore, storedVocab, storeBefore>>
    /\ UNCHANGED <<trieVars, serverVars, loadVars>>

\* the directory iterator yields another file
IndexNextDocument ==
    /\ indexPc = "indexing"
    /\ \E doc \in Documents : IndexDocument(doc)

\* a setup that drops the table whatever the -append option
tableAfterSetup_AlwaysDrop(store, append) == SubSeq(store, 1, 0)

\* setupDatabase: DROP TABLE IF EXISTS unless appending, then CREATE VIRTUAL
\* TABLE IF NOT EXISTS; both are executed before BEGIN TRANSACTION and so are
\* committed at once
tableAfterSetup(store, append) == IF append THEN store ELSE SubSeq(store, 1, 0)

\* the vocabulary sets of the rows setupDatabase leaves
vocabAfterSetup(S, append) == IF append THEN S ELSE {}

\* vocabularyDatabase, setupDatabase: sqlite3_open or a PRAGMA fails; return 1
SetupDatabaseFailsEarly ==
    /\ indexPc = "indexing"
    /\ indexPc' = "failed"
    /\ UNCHANGED <<appendVocab, vocabSet, vocabStore, docRuns, storedVocab, storeBefore>>
    /\ UNCHANGED <<trieVars, serverVars, loadVars>>

\* setupDatabase: the table is dropped unless appending, then CREATE VIRTUAL
\* TABLE or sqlite3_prepare_v2 fails; return 1
SetupDatabaseFailsLate ==
    /\ indexPc = "indexing"
    /\ vocabStore' = tableAfterSetup(vocabStore, appendVocab)
    /\ storedVocab' = vocabAfterSetup(storedVocab, appendVocab)
    /\ indexPc' = "failed"
    /\ UNCHANGED <<appendVocab, vocabSet, docRuns, storeBefore>>
    /\ UNCHANGED <<trieVars, serverVars, loadVars>>

\* setupDatabase returns 0: the table is dropped unless appending and created,
\* the transaction is open and the INSERT prepared
SetupDatabase ==
    /\ indexPc = "indexing"
    /\ vocabStore' = tableAfterSetup(vocabStore, appendVocab)
    /\ storedVocab' = vocabAfterSetup(storedVocab, appendVocab)
    /\ indexPc' = "prepared"
    /\ UNCHANGED <<appendVocab, vocabSet, docRuns, storeBefore>>
    /\ UNCHANGED <<trieVars, serverVars, loadVars>>

\* vocabularyDatabase: sqlite3_bind_text and sqlite3_step of the INSERT; a
\* failure is printed and the function goes on
VocabularyStep(stepDone) ==
    /\ indexPc = "prepared"
    /\ indexPc' = IF stepDone THEN "stepped" ELSE "step_failed"
    /\ UNCHANGED <<appendVocab, vocabSet, vocabStore, docRuns, storedVocab, storeBefore>>
    /\ UNCHANGED <<trieVars, serverVars, loadVars>>

\* finalizeDatabase: COMMIT makes the inserted row, if any, part of the table;
\* when COMMIT fails the function returns 1, the process ends and the open
\* transaction is rolled back
FinalizeDatabase(committed) ==
    /\ indexPc \in {"stepped", "step_failed"}
    /\ IF committed /\ indexPc = "stepped"
       THEN /\ vocabStore' = Append(vocabStore, vocabString(vocabSet))
            /\ storedVocab' = storedVocab \cup vocabSet
       ELSE UNCHANGED <<vocabStore, storedVocab>>
    /\ indexPc' = IF ~committed THEN "failed"
                  ELSE IF indexPc = "stepped" THEN "done" ELSE "done_no_row"
    /\ UNCHANGED <<appendVocab, vocabSet, docRuns, storeBefore>>
    /\ UNCHANGED <<trieVars, serverVars, loadVars>>

\* mkindex has ended, with or without an error
IndexEnded == indexPc \in {"done", "done_no_row", "failed"}

\* edahttpd is started on the table mkindex left
LaunchServer ==
    /\ IndexEnded
    /\ mainPc = "off"
    /\ mainPc' = "start"
    /\ rowsLeft' = Len(vocabStore)
    /\ UNCHANGED <<trieVars, database, loadResult, registered, req, loadVars, indexVars>>

\* sqlite3_step returns SQLITE_ROW with the next row of the table
LoadStoredRow ==
    /\ mainPc = "loading"
    /\ rowsLeft > 0
    /\ LoadRow(vocabStore[Len(vocabStore) - rowsLeft + 1])
    /\ UNCHANGED <<runsRead, rowSets>>

IndexNext ==
    \/ IndexNextDocument
    \/ SetupDatabaseFailsEarly
    \/ SetupDatabaseFailsLate
    \/ SetupDatabase
    \/ \E stepDone \in BOOLEAN : VocabularyStep(stepDone)
    \/ \E committed \in BOOLEAN : FinalizeDatabase(committed)
    \/ LaunchServer
    \/ StartServer
    \/ \E opened \in BOOLEAN : ConstructorOpen(opened)
    \/ LoadOpenFails
    \/ LoadOpenSucceeds
    \/ LoadStoredRow
    \/ LoadDone
    \/ LoadStepFails
    \/ RegisterHandler

SpecIndex == IndexInit /\ [][IndexNext]_vars

-----------------------------------------------------------------------------
(* mkindex version 0.3 (the other mkindex.cpp of the repository): its         *)
(* tokenizer and its vocabulary row                                           *)

VocabMinLengthV03 == 5       \* word.size() >= 5 inside the loop of vocabulary
VocabMinLastLengthV03 == 3   \* word.size() >= 3 after the loop of vocabulary

RECURSIVE vocabularyFromV03(_, _)
\* the loop of vocabulary of version 0.3 and the flush after it
vocabularyFromV03(text, word) ==
    IF text = <<>>
    THEN IF Len(word) >= VocabMinLastLengthV03 THEN {to_bytes(word)} ELSE {}
    ELSE LET c == Head(text)
         IN  IF u_isalpha(c)
             THEN vocabularyFromV03(Tail(text), Append(word, u_tolower(c)))
             ELSE IF Len(word) >= VocabMinLengthV03
                  THEN {to_bytes(word)} \cup vocabularyFromV03(Tail(text), <<>>)
                  ELSE vocabularyFromV03(Tail(text), <<>>)

\* version 0.3 has no append option
IndexInitV03 == IndexInit /\ ~appendVocab

\* main of version 0.3: one file of the input folder goes through vocabulary
IndexDocumentV03(doc) ==
    /\ LET content == from_bytes(doc)
       IN  IF ~content.ok
           THEN /\ indexPc' = "aborted"
                /\ UNCHANGED <<vocabSet, docRuns>>
           ELSE /\ vocabSet' = vocabSet \cup vocabularyFromV03(content.text, <<>>)
                /\ docRuns' = docRuns \cup LongRuns(content.text, VocabMinLengthV03)
                /\ UNCHANGED indexPc
    /\ UNCHANGED <<appendVocab, vocabStore, storedVocab, storeBefore>>
    /\ UNCHANGED <<trieVars, serverVars, loadVars>>

IndexNextDocumentV03 ==
    /\ indexPc = "indexing"
    /\ \E doc \in Documents : IndexDocumentV03(doc)

\* main of version 0.3: DELETE FROM the table, then one row with the whole
\* vocabulary is inserted and committed
VocabularyDatabaseV03 ==
    /\ indexPc = "indexing"
    /\ vocabStore' = <<vocabString(vocabSet)>>
    /\ storedVocab' = vocabSet
    /\ indexPc' = "done"
    /\ UNCHANGED <<appendVocab, vocabSet, docRuns, storeBefore>>
    /\ UNCHANGED <<trieVars, serverVars, loadVars>>

IndexNextV03 ==
    \/ IndexNextDocumentV03
    \/ VocabularyDatabaseV03
    \/ LaunchServer
    \/ StartServer
    \/ \E opened \in BOOLEAN : ConstructorOpen(opened)
    \/ LoadOpenFails
    \/ LoadOpenSucceeds
    \/ LoadStoredRow
    \/ LoadDone
    \/ LoadStepFails
    \/ RegisterHandler

SpecIndexV03 == IndexInitV03 /\ [][IndexNextV03]_vars

-----------------------------------------------------------------------------
(* Properties of the Trie *)

\* C1: every word passed to insert at any earlier point is found by search,
\* whatever was inserted after it.
C1_InsertedFound == \A w \in inserted : search(w)

C1_Witness ==
    /\ inserted = {Wa, Wab}
    /\ collectWords = <<>>
    /\ search(Wa) /\ search(Wab)

\* C2: search is false for every word never passed to insert (proper prefixes
\* and extensions of inserted words included): the flag of the node at the
\* end of a path is true iff exactly that path was inserted.
C2_NeverInsertedNotFound ==
    /\ \A w \in Strings \ inserted : ~search(w)
    /\ \A s \in Strings :
          descend(root, s) # NULL => (isEndOfWord[descend(root, s)] <=> s \in inserted)

C2_Witness ==
    /\ inserted = {Wab}
    /\ startsWith(Wa)
    /\ ~search(Wa)
    /\ ~search(<<LowerA, LowerB, LowerA>>)

\* C3: collectSuggestions(p, k) yields at most k entries, each of which
\* starts with p and is a stored word.
C3_BoundedStoredMatches ==
    \A p \in Strings, k \in Budgets :
        LET r == Suggest(p, k)
        IN  /\ Len(r) <= k
            /\ \A i \in 1 .. Len(r) : IsPrefixOf(p, r[i]) /\ search(r[i])

C3_Witness ==
    /\ inserted = {Wab, Wb}
    /\ collectWords = <<Wab>>
    /\ Suggest(<<>>, 1) = <<Wab>>
    /\ Suggest(Wa, 2) = <<Wab>>

\* C4: on a trie of lowercase words, a query differing from a lowercase
\* prefix only in letter case returns the same, identically ordered result
\* as the lowercase prefix.
C4_CaseInsensitiveQuery ==
    \A p \in Strings, k \in Budgets : Suggest(p, k) = Suggest(ToLowerStr(p), k)

\* C6: the prefix itself, when stored, comes first; a stored word precedes
\* its stored extensions; otherwise results ascend by the codepoints of the
\* completing suffix.
C6_Ordered ==
    \A p \in Strings, k \in Budgets :
        LET r == Suggest(p, k)
        IN  /\ (search(p) /\ k >= 1) => (Len(r) >= 1 /\ r[1] = p)
            /\ \A i, j \in 1 .. Len(r) : i < j => LexLess(r[i], r[j])

C6_Witness ==
    /\ inserted = {Wa, Wab}
    /\ collectWords = <<Wa, Wab>>

\* C7: collectSuggestions(p, k) is exactly the first min(k, n) of the n
\* stored words starting with p, in ascending order; no match is skipped
\* while budget remains.
C7_ExactlyFirstMatches ==
    \A p \in Strings, k \in Budgets :
        Suggest(p, k) = SubSeq(SortLex(Matches(p)), 1, MinNat(k, Cardinality(Matches(p))))

C7_Witness ==
    /\ inserted = {Wb, Wab}
    /\ collectWords = <<Wab, Wb>>
    /\ Suggest(<<>>, 1) = <<Wab>>
    /\ Suggest(<<>>, MaxK) = <<Wab, Wb>>

\* C11: a zero or negative limit makes collectSuggestions return nothing for
\* every prefix and every trie; a negative caller value does not become a
\* large budget through the unsigned parameter.
C11_NonPositiveLimitReturnsNothing ==
    \A p \in Strings, n \in Limits : n <= 0 => Suggest(p, ToSizeT(n)) = <<>>

\* C12: on an unchanged trie collectSuggestions(p, k) gives the same result
\* whatever calls ran before it: whatever an earlier collectSuggestions left
\* in the buffer, the call returns what it returns on an empty buffer, so no
\* stale entry survives.
C12_Deterministic ==
    \A p \in Strings, k \in Budgets : Suggest(p, k) = collectSuggestions(<<>>, p, k)

C12_Witness ==
    /\ inserted = {Wa, Wab}
    /\ collectWords = <<Wa, Wab>>
    /\ Suggest(Wab, 1) = <<Wab>>
    /\ Suggest(<<UpperA>>, MaxK) = <<>>

\* the nodes of the trie: the child maps and the flags
Heap == [children |-> children, isEndOfWord |-> isEndOfWord]

\* C13: inserting a word that is already stored leaves the node structure and
\* every flag unchanged, and with them every result of search, startsWith and
\* collectSuggestions.
C13_InsertIdempotent ==
    \A w \in inserted :
        /\ insert(w) = Heap
        /\ insertFrom(insert(w), root, w) = insert(w)

C13_Witness ==
    /\ inserted = {Wa, Wab}
    /\ collectWords = <<Wa>>
    /\ insert(Wa) = Heap
    /\ Len(children) = 3

\* C14: every prefix of an inserted word, the empty prefix and the word itself
\* included, satisfies startsWith in every later state.
C14_PrefixesStartWith ==
    \A w \in inserted : \A n \in 0 .. Len(w) : startsWith(SubSeq(w, 1, n))

C14_Witness ==
    /\ inserted = {Wab}
    /\ collectWords = <<Wab>>
    /\ startsWith(<<>>) /\ startsWith(Wa) /\ startsWith(Wab)
    /\ ~startsWith(Wb)

RECURSIVE PathsOf(_, _, _)
\* the tree below node of the heap h with the node numbers forgotten: the
\* path and the flag of every node
PathsOf(h, node, path) ==
    {<<path, h.isEndOfWord[node]>>}
    \cup UNION {PathsOf(h, h.children[node][c], Append(path, c)) : c \in DOMAIN h.children[node]}

\* the heap of a new Trie
EmptyHeap == [children |-> <<EmptyMap>>, isEndOfWord |-> <<FALSE>>]

\* C26: the stored words and every result depend only on the set of inserted
\* words, not on the order of the inserts: whatever the order was, the trie
\* is, node numbers apart, the one built by inserting the set in ascending
\* order, and search, startsWith and collectSuggestions return for every
\* argument the value the set alone determines.
C26_OrderIrrelevant ==
    /\ PathsOf(Heap, root, <<>>) = PathsOf(insertAll(EmptyHeap, SortLex(inserted)), root, <<>>)
    /\ \A s \in Strings :
          /\ search(s) <=> s \in inserted
          /\ startsWith(s) <=> (s = <<>> \/ Matches(s) # {})
          /\ Suggest(s, MaxK) = SubSeq(SortLex(Matches(s)), 1, MinNat(MaxK, Cardinality(Matches(s))))

\* b was inserted before a
C26_Witness ==
    /\ inserted = {Wa, Wb}
    /\ children[root] = (LowerB :> 2) @@ (LowerA :> 3)
    /\ collectWords = <<Wa, Wb>>

\* the nodes allocated so far
Nodes == 1 .. Len(children)

\* the (parent, key) pairs whose child pointer is n
Parents(n) == {mc \in Nodes \X Alphabet : retrieveChild(mc[1], mc[2]) = n}

\* the length of the longest prefix of w that has a path
PathLength(w) == MaxOf({n \in 0 .. Len(w) : startsWith(SubSeq(w, 1, n))})

\* C27: the trie is a pure tree in every reachable state: the root exists and
\* has no parent, every other node has exactly one parent and is reached by
\* exactly one codepoint path, and insert creates one node for each codepoint
\* of the word that is missing on its path and for no other.
C27_PureTree ==
    /\ root \in Nodes
    /\ Len(isEndOfWord) = Len(children)
    /\ Parents(root) = {}
    /\ \A n \in Nodes \ {root} : Cardinality(Parents(n)) = 1
    /\ Cardinality(PathsOf(Heap, root, <<>>)) = Len(children)
    /\ \A w \in Words :
          /\ Len(insert(w).children) = Len(children) + Len(w) - PathLength(w)
          /\ \A n \in Nodes : \A c \in DOMAIN children[n] :
                insert(w).children[n][c] = children[n][c]

C27_Witness ==
    /\ inserted = {Wab, <<LowerA, LowerA>>}
    /\ Len(children) = 4
    /\ Cardinality(Parents(2)) = 1
    /\ DOMAIN children[2] = {LowerA, LowerB}

\* C28: inserting the empty word flags the root and creates no node;
\* afterwards search of the empty word is true and collectSuggestions of the
\* empty prefix with a budget of at least 1 returns the empty word first,
\* counted against the budget.
C28_EmptyWordMarksRoot ==
    /\ insert(<<>>) = [children |-> children,
                       isEndOfWord |-> [isEndOfWord EXCEPT ![root] = TRUE]]
    /\ <<>> \in inserted =>
          /\ search(<<>>)
          /\ isEndOfWord[root]
          /\ Suggest(<<>>, 1) = << <<>> >>
          /\ \A k \in Budgets \ {0} :
                /\ Suggest(<<>>, k)[1] = <<>>
                /\ Len(Suggest(<<>>, k)) = MinNat(k, Cardinality(inserted))

C28_Witness ==
    /\ inserted = {<<>>, Wa}
    /\ Len(children) = 2
    /\ collectWords = << <<>>, Wa >>

\* C29: there are no dead branches: every node other than the root is a
\* complete word or has a descendant that is one, so every node without
\* children, the root apart, is a complete word.
C29_NoDeadBranch ==
    \A n \in Nodes \ {root} :
        /\ \E pf \in PathsOf(Heap, n, <<>>) : pf[2]
        /\ children[n] = EmptyMap => isEndOfWord[n]

C29_Witness ==
    /\ inserted = {Wab}
    /\ collectWords = <<>>
    /\ ~isEndOfWord[2] /\ isEndOfWord[3]
    /\ children[3] = EmptyMap

\* C30: for a trie built by inserts of arbitrary codepoint sequences,
\* collectSuggestions(p, k) never returns the same string twice.
C30_NoDuplicateSuggestions ==
    \A p \in Strings, k \in Budgets :
        LET r == Suggest(p, k)
        IN  \A i, j \in 1 .. Len(r) : i # j => r[i] # r[j]

-----------------------------------------------------------------------------
(* Properties of the service *)

W5 == <<LowerA, LowerA, LowerA, LowerA, LowerA>>

\* what a lone /predict request with query q is answered
LoneAnswer(q) == collectSuggestions(<<>>, q, PredictBudget)

\* C5: a /predict request handled concurrently with another receives exactly
\* the suggestion list a lone request with the same query would receive.
C5_ConcurrentRequestsIsolated ==
    \A t \in Threads :
        (req[t].pc = "done" /\ req[t].url = "predict") => req[t].response = LoneAnswer(req[t].q)

\* C8: the vocabulary load completes inside the constructor, the handler is
\* registered only afterwards, and while a request is handled the trie is
\* final: no step of the load can still happen.
C8_LoadedBeforeServing ==
    /\ registered => (loadResult # "none" /\ mainPc = "serving")
    /\ \A t \in Threads :
          req[t].pc # "idle" =>
              /\ registered
              /\ ~ENABLED LoadNextRow
              /\ ~ENABLED LoadOpenSucceeds

C8_Witness ==
    /\ loadResult = "true"
    /\ rowsLeft = 0
    /\ inserted = {W5}
    /\ req[1].pc = "dfs"
    /\ req[1].pending = <<W5>>

\* C9: when the vocabulary cannot be opened or its query cannot be prepared,
\* the service still starts with an empty trie, every /predict request is
\* answered with an empty list, and the other pages are still served.
C9_LoadFailureDegrades ==
    loadResult = "false" =>
        /\ mainPc \in {"constructed", "serving"}
        /\ children = <<EmptyMap>> /\ isEndOfWord = <<FALSE>>
        /\ \A q \in Queries : LoneAnswer(q) = <<>>
        /\ \A t \in Threads :
              /\ (req[t].pc = "done" /\ req[t].url = "predict") => req[t].response = <<>>
              /\ (req[t].pc = "done" /\ req[t].url \in OtherUrls) => req[t].response = <<"page">>
              /\ (mainPc = "serving" /\ req[t].pc = "idle") =>
                    /\ ENABLED RequestPredict(t, <<LowerA>>)
                    /\ \A url \in OtherUrls : ENABLED RequestOther(t, url)

C9_Witness ==
    /\ loadResult = "false"
    /\ mainPc = "serving"
    /\ req[1].pc = "done" /\ req[1].url = "predict" /\ req[1].q = <<LowerA>>
    /\ req[2].pc = "done" /\ req[2].url = "search"

W6 == <<LowerA, LowerA, LowerA, LowerA, LowerA, LowerA>>

RECURSIVE StoredFrom(_, _)
\* the words stored below node, path being the way from the root to node
StoredFrom(node, path) ==
    (IF isEndOfWord[node] THEN {path} ELSE {})
    \cup UNION {StoredFrom(children[node][c], Append(path, c)) : c \in DOMAIN children[node]}

\* the set of words stored in the trie
StoredWords == StoredFrom(root, <<>>)

\* C10: a vocabulary row that cannot be decoded is skipped and the startup
\* load goes on with the remaining rows; startup does not abort.
C10_DecodeFailureSkipsRow == mainPc # "aborted"

\* C16: the startup tokenizer clears its buffer on every non-alphabetic
\* codepoint, so every word inserted into the trie is one maximal alphabetic
\* run, of threshold length, of a row; no shorter run is carried over and
\* joined with a later one.
C16_StartupTokenizerClears == inserted \subseteq runsRead

\* C19: every row is tokenized on its own and every resulting word is
\* inserted: the words stored in the trie are the union of the word sets of
\* the rows read, after every row and when the load has returned, and no
\* partial token outlives the row loop.
C19_RowsIndependent ==
    /\ StoredWords = rowSets
    /\ inserted = rowSets
    /\ mainPc \in {"constructed", "serving"} => loadWord = <<>>

C19_Witness ==
    /\ mainPc = "constructed"
    /\ loadResult = "true"
    /\ rowsLeft = 0
    /\ rowSets = {W5, W6}
    /\ StoredWords = {W5, W6}

\* C20: after startup the trie is read-only: no step taken once the handler
\* is registered, whatever the requests and however they interleave, calls
\* insert or changes the nodes, their child maps or their flags.
C20_ReadOnlyAfterStartup ==
    [][registered => (/\ children' = children
                      /\ isEndOfWord' = isEndOfWord
                      /\ inserted' = inserted)]_vars

C20_Witness ==
    /\ registered
    /\ StoredWords = {W5}
    /\ req[1].pc = "done" /\ req[1].url = "predict" /\ req[1].response = <<W5>>
    /\ req[2].pc = "done" /\ req[2].url = "home"

RECURSIVE TrimLeft(_)
TrimLeft(q) == IF q # <<>> /\ Head(q) = Space THEN TrimLeft(Tail(q)) ELSE q

RECURSIVE TrimRight(_)
TrimRight(q) ==
    IF q # <<>> /\ q[Len(q)] = Space THEN TrimRight(SubSeq(q, 1, Len(q) - 1)) ELSE q

\* the query without its leading and trailing whitespace
Trim(q) == TrimRight(TrimLeft(q))

\* C25: the suggestion service trims the raw query before consulting the
\* trie: a /predict query is answered with the suggestion list of the query
\* without its leading and trailing whitespace.
C25_QueryTrimmed ==
    \A t \in Threads :
        (req[t].pc = "done" /\ req[t].url = "predict")
            => req[t].response = LoneAnswer(Trim(req[t].q))

-----------------------------------------------------------------------------
(* Properties of the indexer and of the vocabulary it hands to the service *)

\* the service has loaded every row of the table
Loaded ==
    /\ mainPc \in {"constructed", "serving"}
    /\ loadResult = "true"
    /\ rowsLeft = 0

\* C15: the vocabulary set of an indexing run, written as its row and then
\* tokenized and inserted at startup, comes back exactly: the tokens of the
\* row are the set, and the trie loaded from the table stores exactly the
\* vocabulary sets whose rows the table holds; no word is lost, added, merged
\* or split.
C15_VocabularyRoundTrip ==
    /\ LET row == from_bytes(vocabString(vocabSet))
       IN  /\ row.ok
           /\ SeqToSet(rowWords(row.text, <<>>)) = vocabSet
           /\ Len(rowWords(row.text, <<>>)) = Cardinality(vocabSet)
    /\ Loaded => StoredWords = storedVocab

C15_Witness ==
    /\ Loaded
    /\ vocabSet = {W5, W6}
    /\ vocabStore = <<vocabString({W5, W6})>>
    /\ StoredWords = {W5, W6}

\* "The quick-brown Fox123 jumps!!"
ExampleText ==
    <<84, 104, 101, 32, 113, 117, 105, 99, 107, 45, 98, 114, 111, 119, 110, 32,
      70, 111, 120, 49, 50, 51, 32, 106, 117, 109, 112, 115, 33, 33>>

ExampleTokens ==
    {<<113, 117, 105, 99, 107>>, <<98, 114, 111, 119, 110>>, <<106, 117, 109, 112, 115>>}

\* C17: every token vocabulary adds to the vocabulary set is made of
\* lowercase alphabetic codepoints only, has at least threshold length and is
\* a maximal alphabetic run of an input text; shorter runs are dropped; with
\* threshold 5 the text "The quick-brown Fox123 jumps!!" yields exactly
\* quick, brown, jumps.
C17_VocabularyTokens ==
    /\ \A w \in vocabSet :
          /\ Len(w) >= VocabMinLength
          /\ \A i \in 1 .. Len(w) : u_isalpha(w[i]) /\ u_tolower(w[i]) = w[i]
    /\ vocabSet = docRuns
    /\ vocabularyFrom(ExampleText, <<>>) = ExampleTokens

C17_Witness ==
    /\ indexPc = "indexing"
    /\ vocabSet = {W5, W6}
    /\ docRuns = {W5, W6}
    /\ vocabStore = <<>>

\* C18: one minimum length is applied everywhere: a pending run is emitted
\* iff it has that length, whether a non-alphabetic codepoint or the end of
\* the input ends it, and the write path and the read path use the same
\* length, so every word the indexer accepted is stored by the service.
C18_SingleMinimumLength ==
    /\ vocabSet = docRuns
    /\ \A w \in vocabSet : Len(w) >= MinWordLength /\ Len(w) >= MinLastWordLength
    /\ Loaded => StoredWords = storedVocab

\* the row this run writes
RunRow == vocabString(vocabSet)

RECURSIVE SplitOnSpace(_, _)
SplitOnSpace(value, piece) ==
    IF value = <<>> THEN <<piece>>
    ELSE IF Head(value) = Space
         THEN <<piece>> \o SplitOnSpace(Tail(value), <<>>)
         ELSE SplitOnSpace(Tail(value), Append(piece, Head(value)))

\* C22: the value a run persists holds each distinct word of the run's
\* vocabulary exactly once, the words joined by exactly one space and nothing
\* else: split at its spaces it gives the words, once each, and no empty piece.
C22_WordsJoinedBySingleSpace ==
    indexPc = "done" =>
        LET value == vocabStore[Len(vocabStore)]
            pieces == IF value = <<>> THEN <<>> ELSE SplitOnSpace(value, <<>>)
        IN  /\ SeqToSet(pieces) = vocabSet
            /\ Len(pieces) = Cardinality(vocabSet)

\* C23: persisting the vocabulary is atomic per run: when mkindex has ended,
\* the table holds either the rows it held before the run or the complete
\* outcome of the run; a failed insert or commit does not leave it with the
\* earlier rows removed and no new row.
C23_PersistAtomic ==
    IndexEnded =>
        \/ vocabStore = storeBefore
        \/ vocabStore = Append(IF appendVocab THEN storeBefore ELSE <<>>, RunRow)

====
